---- MODULE Spec2Model ----
(***************************************************************************)
(* Model of src/src/render.py: the Renderer scheduler, the                 *)
(* AlbumRenderHelper dependency groups, the render / combine workers and   *)
(* the process registry PROCESSES with clean_up.                           *)
(*                                                                         *)
(* Threads.  The Renderer lives in the GUI thread.  Every worker is moved  *)
(* to its own QThread; worker.run is connected to thread.started and runs  *)
(* in that thread.  The callbacks connected in add_worker (worker.finished,*)
(* thread.finished, worker.error, worker.progress) are delivered to the    *)
(* GUI thread as queued events: evq[j] is the FIFO of the events thread j  *)
(* has emitted and the GUI thread has not handled yet.  A handler of the   *)
(* GUI thread is one atomic action.  clean_up, which walks the shared list *)
(* PROCESSES while worker threads append to it and remove from it, is      *)
(* modelled one loop iteration at a time.                                  *)
(*                                                                         *)
(* A job's identity str(worker) is the job's number; identities are        *)
(* distinct.  A job's QThread is identified with the job.                  *)
(*                                                                         *)
(* QThread.  start() does nothing on a running thread and runs a thread    *)
(* that has finished once more.  worker.run is called from the started     *)
(* signal, before the thread enters its event loop; quit() makes the event *)
(* loop return, the thread then finishes: isRunning() turns false and      *)
(* thread.finished is queued to the GUI thread.  worker_finished calls     *)
(* thread.quit() and then worker.deleteLater(): the deferred delete is     *)
(* executed by the worker's thread when it finishes if it was posted by    *)
(* then, and otherwise in the next event loop of that thread.  Both        *)
(* outcomes of this race are modelled (workerObj): a thread that is        *)
(* started again runs its worker again unless the worker object is gone.   *)
(*                                                                         *)
(* Specifications.  Spec is the scheduler with cancel(); FairSpec is the   *)
(* scheduler without cancel() under fair scheduling.  In both, a process   *)
(* writes at most MaxLines lines, each handled as it is written, and then  *)
(* exits.  ProgressSpec runs independent songs whose processes write every *)
(* kind of progress line.  HandlerSpec follows one call of                 *)
(* ProcessHandler.run with its two read_pipe threads and its queue line by *)
(* line; a line that run drops there is, for the scheduler, a line the     *)
(* process did not write.                                                  *)
(***************************************************************************)
EXTENDS Integers, Sequences, FiniteSets, TLC

\* ---------------------------------------------------------------- bounds
MaxJobs == 3        \* jobs submitted to one batch
MaxProcs == 2       \* largest value of the maxProcesses setting
MaxLines == 1       \* lines one process writes (stdout and stderr together)
MaxPipeLines == 2   \* ProcessHandler.run on its own: lines written on one stream

JobIds == 1..MaxJobs

\* The two pipes of a process.
Streams == {"stdout", "stderr"}

VARIABLES
    phase,          \* caller: "setup" (submitting jobs) or "rendering" (render() called)
    kind,           \* sequence: kind of job j, "render" or "combine"
    groupOf,        \* sequence: index in helpers of the album job j belongs to, 0 if none
    duration,       \* sequence: get_duration_ms() of job j
    maxProcesses,   \* get_setting("maxProcesses")
    threads,        \* Renderer.threads
    workers,        \* Renderer.workers (its keys; the thread of key j is thread j)
    helpers,        \* Renderer.helpers: [workers, combine_worker, error]
    results,        \* Renderer.results
    working,        \* Renderer.working
    cancelled,      \* Renderer.cancelled
    isRunning,      \* QThread.isRunning() of thread j
    quitReq,        \* thread j was told to quit and has not left its event loop yet
    wpc,            \* position of thread j: "idle", "run", "reading", "exec"
    workerObj,      \* worker object j: "live", "delRequested", "delPending", "deleted"
    starts,         \* number of times thread j was started
    proc,           \* external process of job j: "none", "alive", "killed"
    nlines,         \* lines written by the current process of job j
    PROCESSES,      \* the module-level list PROCESSES
    evq,            \* queued events from thread j to the GUI thread
    mainpc,         \* GUI thread: "idle" or "clean_up" (inside cancel())
    cleanIdx,       \* index of the list iterator of clean_up
    cancelCalled,   \* the caller has called cancel()
    emits,          \* signals the Renderer emitted in the last step
    nFinished,      \* number of emissions of Renderer.finished
    finishedResults,\* the results map carried by the last emission of Renderer.finished
    reported,       \* history: outcomes job j passed to worker_finished
    errored,        \* history: Renderer.worker_error was emitted for job j
    exitStatus,     \* history: how the last run of worker j ended
    removed,        \* number of input files combine worker j has removed
    enqueued,       \* history: times start_worker appended thread j to self.threads
    plines,         \* ProcessHandler.run: lines the process writes on each stream
    rd,             \* ProcessHandler.run: lines read_pipe has read from each stream
    rdDone,         \* ProcessHandler.run: read_pipe has put the sentinel of the stream
    queue,          \* ProcessHandler.run: the Queue q that read_pipe puts to
    fwd,            \* ProcessHandler.run: the signals emitted, in order
    hpc             \* ProcessHandler.run: "idle", "loop", "wait", "returned"

vars == <<phase, kind, groupOf, duration, maxProcesses, threads, workers, helpers,
          results, working, cancelled, isRunning, quitReq, wpc, workerObj, starts,
          proc, nlines, PROCESSES, evq, mainpc, cleanIdx, cancelCalled, emits,
          nFinished, finishedResults, reported, errored, exitStatus, removed,
          enqueued, plines, rd, rdDone, queue, fwd, hpc>>

\* The state of one call of ProcessHandler.run, modelled on its own.
hvars == <<plines, rd, rdDone, queue, fwd, hpc>>

\* The state of the Renderer, its jobs, threads and processes.
rvars == <<phase, kind, groupOf, duration, maxProcesses, threads, workers, helpers,
           results, working, cancelled, isRunning, quitReq, wpc, workerObj, starts,
           proc, nlines, PROCESSES, evq, mainpc, cleanIdx, cancelCalled, emits,
           nFinished, finishedResults, reported, errored, exitStatus, removed,
           enqueued>>

nJobs == Len(kind)
Jobs == 1..nJobs

\* The upstream render jobs of the album of helper h.
Upstream(h) == {j \in Jobs : groupOf[j] = h /\ kind[j] = "render"}

\* ------------------------------------------------------------ inputs
\* get_duration_ms() of a submitted song, in milliseconds.
Durations == {1000}

\* A line of standard output, as progress.strip().split("=") sees it: the
\* number of "="-separated parts, the first part, and the second part as
\* int() reads it (isInt = FALSE: int() raises ValueError).
Line(n, k, i, v) == [nparts |-> n, key |-> k, isInt |-> i, val |-> v]
StdoutLines == { Line(2, "out_time_us", TRUE, 500000) }

\* ------------------------------------------------------------ helpers
Min(a, b) == IF a < b THEN a ELSE b
Max(a, b) == IF a > b THEN a ELSE b

InSeq(x, s) == \E i \in 1..Len(s) : s[i] = x

\* list.remove(x): drops the first occurrence of x.
RECURSIVE ListRemove(_, _)
ListRemove(s, x) ==
    IF s = <<>> THEN <<>>
    ELSE IF Head(s) = x THEN Tail(s)
    ELSE <<Head(s)>> \o ListRemove(Tail(s), x)

\* dict[k] = v
DictSet(d, k, v) == [x \in (DOMAIN d) \cup {k} |-> IF x = k THEN v ELSE d[x]]

EmptyDict == [x \in {} |-> TRUE]

Signal(s, j, o, p) == [sig |-> s, job |-> j, ok |-> o, pct |-> p]

\* The part of the state the handlers of the GUI thread read and write.
Pack ==
    [threads |-> threads, workers |-> workers, helpers |-> helpers,
     results |-> results, working |-> working, cancelled |-> cancelled,
     isRunning |-> isRunning, quitReq |-> quitReq, wpc |-> wpc,
     workerObj |-> workerObj, starts |-> starts, emits |-> <<>>,
     nFinished |-> nFinished, finishedResults |-> finishedResults,
     reported |-> reported, errored |-> errored, enqueued |-> enqueued]

Commit(R) ==
    /\ threads' = R.threads
    /\ workers' = R.workers
    /\ helpers' = R.helpers
    /\ results' = R.results
    /\ working' = R.working
    /\ cancelled' = R.cancelled
    /\ isRunning' = R.isRunning
    /\ quitReq' = R.quitReq
    /\ wpc' = R.wpc
    /\ workerObj' = R.workerObj
    /\ starts' = R.starts
    /\ emits' = R.emits
    /\ nFinished' = R.nFinished
    /\ finishedResults' = R.finishedResults
    /\ reported' = R.reported
    /\ errored' = R.errored
    /\ enqueued' = R.enqueued

\* ------------------------------------------------------------ QThread
\* QThread.start(): nothing if the thread is running.  Otherwise the thread
\* runs (again): it emits started, which calls worker.run unless the worker
\* object was deleted, and then enters its event loop.
QThread_start(R, t) ==
    IF R.isRunning[t] THEN R
    ELSE [R EXCEPT !.isRunning[t] = TRUE,
                   !.quitReq[t] = FALSE,
                   !.starts[t] = @ + 1,
                   !.wpc[t] = IF R.workerObj[t] = "deleted" THEN "exec" ELSE "run"]

\* QThread.quit(): the event loop of a running thread returns; no effect on
\* a thread that is not running.
QThread_quit(R, t) ==
    IF R.isRunning[t] THEN [R EXCEPT !.quitReq[t] = TRUE] ELSE R

\* ------------------------------------------------------------ Renderer
\* self.finished.emit(self.results)
emit_finished(R) ==
    [R EXCEPT !.emits = Append(@, Signal("finished", 0, TRUE, 0)),
              !.nFinished = @ + 1,
              !.finishedResults = R.results]

\* for i in range(n): self.threads[i].start()
RECURSIVE StartRange(_, _, _)
StartRange(R, i, n) ==
    IF i > n THEN R
    ELSE StartRange(QThread_start(R, R.threads[i]), i + 1, n)

\* render() that starts every thread of self.threads, whatever maxProcesses is.
render_startsAll(R) ==
    LET R1 == [R EXCEPT !.working = TRUE]
        R2 == IF R1.workers = {}
              THEN emit_finished([R1 EXCEPT !.working = FALSE])
              ELSE R1
    IN  StartRange(R2, 1, Len(R2.threads))

render(R) ==
    LET R1 == [R EXCEPT !.working = TRUE]
        R2 == IF R1.workers = {}
              THEN emit_finished([R1 EXCEPT !.working = FALSE])
              ELSE R1
    IN  StartRange(R2, 1, Min(maxProcesses, Len(R2.threads)))

start_worker(R, worker_name) ==
    IF worker_name \in R.workers /\ ~InSeq(worker_name, R.threads)
    THEN LET R1 == [R EXCEPT !.threads = Append(@, worker_name),
                             !.enqueued[worker_name] = @ + 1]
         IN  IF ~R1.working THEN render(R1) ELSE R1
    ELSE R

cancel_worker(R, worker_name) ==
    IF worker_name \in R.workers
    THEN LET R1 == QThread_quit(R, worker_name)
             R2 == [R1 EXCEPT !.threads = ListRemove(@, worker_name)]
             R3 == IF Len(R2.threads) = 0 THEN [R2 EXCEPT !.working = FALSE] ELSE R2
         IN  [R3 EXCEPT !.workers = @ \ {worker_name}]
    ELSE R

\* ------------------------------------------------------------ AlbumRenderHelper
AlbumRenderHelper_worker_done(R, h, worker, success) ==
    LET hp  == R.helpers[h]
        hp1 == IF worker \in hp.workers
               THEN [hp EXCEPT !.workers = @ \ {worker},
                               !.error = IF ~success THEN TRUE ELSE @]
               ELSE hp
        R1  == [R EXCEPT !.helpers[h] = hp1]
    IN  IF hp1.workers = {} /\ ~hp1.error
        THEN start_worker(R1, hp1.combine_worker)
        ELSE R1

AlbumRenderHelper_worker_error(R, h, worker) ==
    LET hp == R.helpers[h]
    IN  IF worker \in hp.workers
        THEN cancel_worker([R EXCEPT !.helpers[h].error = TRUE], hp.combine_worker)
        ELSE R

\* Renderer.worker_done.emit(name, success): the caller's slot, then the
\* worker_done slot of every helper, in the order the helpers connected.
RECURSIVE DoneSlots(_, _, _, _)
DoneSlots(R, h, worker, success) ==
    IF h > Len(R.helpers) THEN R
    ELSE DoneSlots(AlbumRenderHelper_worker_done(R, h, worker, success),
                   h + 1, worker, success)

emit_worker_done(R, worker, success) ==
    DoneSlots([R EXCEPT !.emits = Append(@, Signal("worker_done", worker, success, 0))],
              1, worker, success)

\* Renderer.worker_error.emit(name, error)
RECURSIVE ErrorSlots(_, _, _)
ErrorSlots(R, h, worker) ==
    IF h > Len(R.helpers) THEN R
    ELSE ErrorSlots(AlbumRenderHelper_worker_error(R, h, worker), h + 1, worker)

emit_worker_error(R, worker) ==
    ErrorSlots([R EXCEPT !.emits = Append(@, Signal("worker_error", worker, FALSE, 0)),
                         !.errored[worker] = TRUE],
               1, worker)

\* ------------------------------------------------------------ Renderer slots
\* The percentage _worker_progress computes, or -1 when it emits nothing
\* (the key is another one, or an exception was caught and logged).
\* int((a / b) * 100) is taken as the exact quotient truncated towards
\* zero; the floating-point product can fall just below it.
ProgressPercent_unclamped(line, total_time_ms) ==
    IF line.nparts # 2 THEN -1
    ELSE IF line.key # "out_time_us" THEN -1
    ELSE IF ~line.isInt THEN -1
    ELSE IF total_time_ms = 0 THEN -1
    ELSE LET current_time_ms == line.val \div 1000
         IN  (current_time_ms * 100) \div total_time_ms

ProgressPercent(line, total_time_ms) ==
    IF line.nparts # 2 THEN -1
    ELSE IF line.key # "out_time_us" THEN -1
    ELSE IF ~line.isInt THEN -1
    ELSE IF total_time_ms = 0 THEN -1
    ELSE LET current_time_ms == line.val \div 1000
             scaled == current_time_ms * 100
             q == IF scaled >= 0 THEN scaled \div total_time_ms
                  ELSE -((-scaled) \div total_time_ms)
         IN  Max(0, Min(q, 100))

\* _worker_progress whose except clause reports the line as a worker error.
worker_progress_slot_surfacing(R, worker, line) ==
    LET p == ProgressPercent(line, duration[worker])
    IN  IF p >= 0
        THEN [R EXCEPT !.emits = Append(@, Signal("worker_progress", worker, TRUE, p))]
        ELSE emit_worker_error(R, worker)

worker_progress_slot(R, worker, line) ==
    LET p == ProgressPercent(line, duration[worker])
    IN  IF p >= 0
        THEN [R EXCEPT !.emits = Append(@, Signal("worker_progress", worker, TRUE, p))]
        ELSE R

worker_finished(R, worker, success) ==
    LET R1 == [R EXCEPT !.results = DictSet(@, worker, success),
                        !.reported[worker] = @ \cup {success}]
    IN  IF ~R1.cancelled
        THEN LET R2 == emit_worker_done(R1, worker, success)
                 R3 == QThread_quit(R2, worker)
             IN  [R3 EXCEPT !.workerObj[worker] =
                                IF @ = "live" THEN "delRequested" ELSE @]
        ELSE R1

\* The first thread of self.threads that is not running, 0 if there is none.
FirstNotRunning(R) ==
    LET idx == {i \in 1..Len(R.threads) : ~R.isRunning[R.threads[i]]}
    IN  IF idx = {} THEN 0
        ELSE R.threads[CHOOSE i \in idx : \A k \in idx : i <= k]

\* thread_finished without the test of self.cancelled.
thread_finished_unguarded(R, thread) ==
    LET R1 == [R EXCEPT !.threads = ListRemove(@, thread),
                        !.workers = @ \ {thread}]
        R2 == IF Len(R1.threads) = 0 THEN [R1 EXCEPT !.working = FALSE] ELSE R1
        R3 == IF R2.workers = {} THEN emit_finished(R2) ELSE R2
        t  == FirstNotRunning(R3)
    IN  IF t # 0
        THEN [QThread_start(R3, t) EXCEPT !.working = TRUE]
        ELSE R3

thread_finished(R, thread) ==
    IF ~R.cancelled
    THEN LET R1 == [R EXCEPT !.threads = ListRemove(@, thread),
                             !.workers = @ \ {thread}]
             R2 == IF Len(R1.threads) = 0 THEN [R1 EXCEPT !.working = FALSE] ELSE R1
             R3 == IF R2.workers = {} THEN emit_finished(R2) ELSE R2
             t  == FirstNotRunning(R3)
         IN  IF t # 0
             THEN [QThread_start(R3, t) EXCEPT !.working = TRUE]
             ELSE R3
    ELSE R

\* cancel(), after clean_up() has returned.
cancel_rest(R) ==
    LET R1 == [R EXCEPT !.cancelled = TRUE]
        R2 == [R1 EXCEPT !.results =
                  [x \in (DOMAIN R1.results) \cup R1.workers |->
                      IF x \in DOMAIN R1.results THEN R1.results[x] ELSE FALSE]]
    IN  emit_finished(R2)

\* ------------------------------------------------------------ submission
\* What the submission calls build: the jobs and the Renderer's collections.
PackJobs ==
    [kind |-> kind, groupOf |-> groupOf, duration |-> duration,
     threads |-> threads, workers |-> workers, helpers |-> helpers]

CommitJobs(S) ==
    /\ kind' = S.kind
    /\ groupOf' = S.groupOf
    /\ duration' = S.duration
    /\ threads' = S.threads
    /\ workers' = S.workers
    /\ helpers' = S.helpers

\* add_worker(worker, auto_start); the new worker's identity is Len(kind) + 1.
add_worker(S, k, g, d, auto_start) ==
    LET w == Len(S.kind) + 1
    IN  [S EXCEPT !.kind = Append(@, k),
                  !.groupOf = Append(@, g),
                  !.duration = Append(@, d),
                  !.threads = IF auto_start THEN Append(@, w) ELSE @,
                  !.workers = @ \cup {w}]

add_render_song_job(S, g, d) == add_worker(S, "render", g, d, TRUE)

combine_songs_into_album(S, g, d) == add_worker(S, "combine", g, d, FALSE)

RECURSIVE AddSongs(_, _, _, _)
AddSongs(S, n, g, d) ==
    IF n = 0 THEN S ELSE AddSongs(add_render_song_job(S, g, d), n - 1, g, d)

\* AlbumRenderHelper(album).render(renderer), appended to renderer.helpers:
\* an album of n songs of d milliseconds each.
AlbumRenderHelper_render(S, n, d) ==
    LET g  == Len(S.helpers) + 1
        w0 == Len(S.kind)
        S1 == AddSongs(S, n, g, d)
        S2 == combine_songs_into_album(S1, g, n * d)
    IN  [S2 EXCEPT !.helpers = Append(@, [workers |-> (w0 + 1)..(w0 + n),
                                          combine_worker |-> w0 + n + 1,
                                          error |-> FALSE])]

\* add_render_album_job(album): single = TRUE is AlbumPlaylist.SINGLE,
\* single = FALSE is AlbumPlaylist.MULTIPLE.
add_render_album_job(S, n, d, single) ==
    IF n = 0 THEN S
    ELSE IF single THEN AlbumRenderHelper_render(S, n, d)
    ELSE AddSongs(S, n, 0, d)

UNCHANGED_run ==
    UNCHANGED <<results, working, cancelled, isRunning, quitReq, wpc, workerObj,
                starts, proc, nlines, PROCESSES, evq, mainpc, cleanIdx,
                cancelCalled, emits, nFinished, finishedResults, reported, errored,
                exitStatus, removed, enqueued, hvars>>

\* The caller submits a song whose duration is one of D, as long as the
\* batch has fewer than n jobs.
SubmitSongOf(D, n) ==
    /\ phase = "setup"
    /\ nJobs + 1 <= n
    /\ \E d \in D : CommitJobs(add_render_song_job(PackJobs, 0, d))
    /\ UNCHANGED <<phase, maxProcesses>>
    /\ UNCHANGED_run

SubmitSong == SubmitSongOf(Durations, MaxJobs)

SubmitAlbum ==
    /\ phase = "setup"
    /\ \E n \in 1..MaxJobs, d \in Durations, single \in BOOLEAN :
          /\ nJobs + n + (IF single THEN 1 ELSE 0) <= MaxJobs
          /\ CommitJobs(add_render_album_job(PackJobs, n, d, single))
    /\ UNCHANGED <<phase, maxProcesses>>
    /\ UNCHANGED_run

\* The caller calls render() once, after the submissions.
CallRender ==
    /\ phase = "setup"
    /\ phase' = "rendering"
    /\ Commit(render(Pack))
    /\ UNCHANGED <<kind, groupOf, duration, maxProcesses, proc, nlines, PROCESSES,
                   evq, mainpc, cleanIdx, cancelCalled, exitStatus, removed, hvars>>

\* ------------------------------------------------------------ worker threads
NoLine == Line(0, "", FALSE, 0)
Event(e, l, o) == [ev |-> e, line |-> l, ok |-> o]

UNCHANGED_gui ==
    UNCHANGED <<phase, kind, groupOf, duration, maxProcesses, threads, workers,
                helpers, results, working, cancelled, mainpc, cleanIdx, cancelCalled,
                nFinished, finishedResults, reported, errored, starts, enqueued,
                hvars>>

\* RenderSongWorker.run / CombineSongWorker.run: an exception before the
\* process exists (formatting the command, writing the list file, Popen).
RunException(j) ==
    /\ wpc[j] = "run"
    /\ wpc' = [wpc EXCEPT ![j] = "exec"]
    /\ evq' = [evq EXCEPT ![j] = @ \o <<Event("err", NoLine, FALSE),
                                        Event("fin", NoLine, FALSE)>>]
    /\ exitStatus' = [exitStatus EXCEPT ![j] = "exception"]
    /\ emits' = <<>>
    /\ UNCHANGED <<isRunning, quitReq, workerObj, proc, nlines, PROCESSES, removed>>
    /\ UNCHANGED_gui

\* ProcessHandler.run: Popen and PROCESSES.append(p).
Popen(j) ==
    /\ wpc[j] = "run"
    /\ wpc' = [wpc EXCEPT ![j] = "reading"]
    /\ proc' = [proc EXCEPT ![j] = "alive"]
    /\ nlines' = [nlines EXCEPT ![j] = 0]
    /\ PROCESSES' = Append(PROCESSES, j)
    /\ emits' = <<>>
    /\ UNCHANGED <<isRunning, quitReq, workerObj, evq, exitStatus, removed>>
    /\ UNCHANGED_gui

\* The process writes a line on standard output: handler.stdout, then
\* worker.progress, are emitted.
StdoutLineOf(j, L) ==
    /\ wpc[j] = "reading"
    /\ proc[j] = "alive"
    /\ nlines[j] < MaxLines
    /\ nlines' = [nlines EXCEPT ![j] = @ + 1]
    /\ \E l \in L : evq' = [evq EXCEPT ![j] = Append(@, Event("out", l, FALSE))]
    /\ emits' = <<>>
    /\ UNCHANGED <<isRunning, quitReq, wpc, workerObj, proc, PROCESSES, exitStatus,
                   removed>>
    /\ UNCHANGED_gui

StdoutLine(j) == StdoutLineOf(j, StdoutLines)

\* The process writes a line on standard error: handler.stderr, then
\* worker.error, are emitted.
StderrLine(j) ==
    /\ wpc[j] = "reading"
    /\ proc[j] = "alive"
    /\ nlines[j] < MaxLines
    /\ nlines' = [nlines EXCEPT ![j] = @ + 1]
    /\ evq' = [evq EXCEPT ![j] = Append(@, Event("err", NoLine, FALSE))]
    /\ emits' = <<>>
    /\ UNCHANGED <<isRunning, quitReq, wpc, workerObj, proc, PROCESSES, exitStatus,
                   removed>>
    /\ UNCHANGED_gui

\* A return value with the test of the status inverted.
errors_inverted(st) == st = "exit0"

\* ProcessHandler.run's return value: error = p.wait() != 0.
errors(st) == st # "exit0"

\* The files song.get("fileOutput") of album.getChildren() a combine worker
\* removes; a render worker removes nothing.
Inputs(j) == IF kind[j] = "combine" THEN Cardinality(Upstream(groupOf[j])) ELSE 0

\* for song in self.album.getChildren(): os.remove(song.get("fileOutput")).
\* n files are removed; os.remove raises for a file that is not there (the
\* inputs an earlier run of this worker removed, or an output a song never
\* wrote), which ends the loop.
RemoveOutcomes(j) ==
    IF Inputs(j) = 0 THEN {[n |-> 0, raised |-> FALSE]}
    ELSE IF removed[j] > 0 THEN {[n |-> removed[j], raised |-> TRUE]}
    ELSE {[n |-> k, raised |-> k < Inputs(j)] : k \in 0..Inputs(j)}

\* worker.run after handler.run has returned: the combine worker removes
\* its input files whatever handler.run returned, then the worker emits
\* finished(not errors); an exception is caught: error, finished(False).
RunEnd(j, st) ==
    \E o \in RemoveOutcomes(j) :
        /\ removed' = [removed EXCEPT ![j] = o.n]
        /\ evq' = [evq EXCEPT ![j] =
                      IF o.raised
                      THEN @ \o <<Event("err", NoLine, FALSE), Event("fin", NoLine, FALSE)>>
                      ELSE Append(@, Event("fin", NoLine, ~errors(st)))]
        /\ exitStatus' = [exitStatus EXCEPT ![j] = st]

\* The process exits by itself, with status zero or not; both pipes reach
\* end of file and ProcessHandler.run returns: p.wait(), PROCESSES.remove(p);
\* then the rest of worker.run.
ProcessExit(j) ==
    /\ wpc[j] = "reading"
    /\ proc[j] = "alive"
    /\ \E st \in {"exit0", "exit1"} : RunEnd(j, st)
    /\ PROCESSES' = ListRemove(PROCESSES, j)
    /\ proc' = [proc EXCEPT ![j] = "none"]
    /\ wpc' = [wpc EXCEPT ![j] = "exec"]
    /\ emits' = <<>>
    /\ nlines' = [nlines EXCEPT ![j] = 0]
    /\ UNCHANGED <<isRunning, quitReq, workerObj>>
    /\ UNCHANGED_gui

\* The process was killed by clean_up: p.wait() is the signal's status, not
\* zero; ProcessHandler.run removes it from PROCESSES and returns True;
\* then the rest of worker.run.
Reap(j) ==
    /\ wpc[j] = "reading"
    /\ proc[j] = "killed"
    /\ PROCESSES' = ListRemove(PROCESSES, j)
    /\ RunEnd(j, "exit1")
    /\ proc' = [proc EXCEPT ![j] = "none"]
    /\ wpc' = [wpc EXCEPT ![j] = "exec"]
    /\ emits' = <<>>
    /\ nlines' = [nlines EXCEPT ![j] = 0]
    /\ UNCHANGED <<isRunning, quitReq, workerObj>>
    /\ UNCHANGED_gui

\* The thread leaves its event loop after quit() and finishes: isRunning()
\* is false and thread.finished is emitted.  worker.deleteLater() of
\* worker_finished races with the end of the thread: either the deferred
\* delete was posted in time and the worker object is destroyed now, or it
\* stays posted and is executed in the thread's next event loop.
ThreadExit(j) ==
    /\ wpc[j] = "exec"
    /\ quitReq[j]
    /\ isRunning' = [isRunning EXCEPT ![j] = FALSE]
    /\ quitReq' = [quitReq EXCEPT ![j] = FALSE]
    /\ wpc' = [wpc EXCEPT ![j] = "idle"]
    /\ evq' = [evq EXCEPT ![j] = Append(@, Event("tfin", NoLine, FALSE))]
    /\ \E o \in (CASE workerObj[j] = "delRequested" -> {"deleted", "delPending"}
                   [] workerObj[j] = "delPending" -> {"deleted"}
                   [] OTHER -> {workerObj[j]}) :
          workerObj' = [workerObj EXCEPT ![j] = o]
    /\ emits' = <<>>
    /\ UNCHANGED <<proc, nlines, PROCESSES, exitStatus, removed>>
    /\ UNCHANGED_gui

\* ------------------------------------------------------------ GUI thread
UNCHANGED_env ==
    UNCHANGED <<phase, kind, groupOf, duration, maxProcesses, proc, nlines,
                PROCESSES, mainpc, cleanIdx, cancelCalled, exitStatus, removed,
                hvars>>

Deliver(j, e) ==
    /\ mainpc = "idle"
    /\ evq[j] # <<>>
    /\ Head(evq[j]).ev = e
    /\ evq' = [evq EXCEPT ![j] = Tail(@)]

\* lambda progress: self._worker_progress(worker, progress)
OnProgress(j) ==
    /\ Deliver(j, "out")
    /\ Commit(worker_progress_slot(Pack, j, Head(evq[j]).line))
    /\ UNCHANGED_env

\* lambda error: self.worker_error.emit(str(worker), error)
OnError(j) ==
    /\ Deliver(j, "err")
    /\ Commit(emit_worker_error(Pack, j))
    /\ UNCHANGED_env

\* lambda success: self.worker_finished(worker, thread, success)
OnWorkerFinished(j) ==
    /\ Deliver(j, "fin")
    /\ Commit(worker_finished(Pack, j, Head(evq[j]).ok))
    /\ UNCHANGED_env

\* lambda: self.thread_finished(thread)
OnThreadFinished(j) ==
    /\ Deliver(j, "tfin")
    /\ Commit(thread_finished(Pack, j))
    /\ UNCHANGED_env

UNCHANGED_cancel ==
    UNCHANGED <<phase, kind, groupOf, duration, maxProcesses, threads, workers,
                helpers, results, working, cancelled, isRunning, quitReq, wpc,
                workerObj, starts, nlines, PROCESSES, evq, nFinished,
                finishedResults, reported, errored, exitStatus, removed,
                enqueued, hvars>>

\* The caller calls cancel(): clean_up() starts iterating PROCESSES.
CancelBegin ==
    /\ phase = "rendering"
    /\ mainpc = "idle"
    /\ ~cancelCalled
    /\ cancelCalled' = TRUE
    /\ mainpc' = "clean_up"
    /\ cleanIdx' = 1
    /\ emits' = <<>>
    /\ UNCHANGED proc
    /\ UNCHANGED_cancel

\* clean_up: one iteration of "for p in PROCESSES": the list iterator
\* yields PROCESSES[cleanIdx] of the list as it is now, and the process is
\* killed (an error for a process that is gone is swallowed).
clean_up_step ==
    /\ mainpc = "clean_up"
    /\ cleanIdx <= Len(PROCESSES)
    /\ LET p == PROCESSES[cleanIdx]
       IN  proc' = [proc EXCEPT ![p] = IF @ = "alive" THEN "killed" ELSE @]
    /\ cleanIdx' = cleanIdx + 1
    /\ emits' = <<>>
    /\ UNCHANGED <<mainpc, cancelCalled>>
    /\ UNCHANGED_cancel

\* clean_up's iterator is exhausted; the rest of cancel() runs.
CancelEnd ==
    /\ mainpc = "clean_up"
    /\ cleanIdx > Len(PROCESSES)
    /\ mainpc' = "idle"
    /\ cleanIdx' = 0
    /\ Commit(cancel_rest(Pack))
    /\ UNCHANGED <<phase, kind, groupOf, duration, maxProcesses, proc, nlines,
                   PROCESSES, evq, cancelCalled, exitStatus, removed, hvars>>

\* ------------------------------------------------------------ specification
\* No call of ProcessHandler.run is followed line by line.
HandlerIdle ==
    /\ plines = [s \in Streams |-> 0]
    /\ rd = [s \in Streams |-> 0]
    /\ rdDone = [s \in Streams |-> FALSE]
    /\ queue = <<>>
    /\ fwd = <<>>
    /\ hpc = "idle"

RendererInit ==
    /\ phase = "setup"
    /\ kind = <<>>
    /\ groupOf = <<>>
    /\ duration = <<>>
    /\ maxProcesses \in 1..MaxProcs
    /\ threads = <<>>
    /\ workers = {}
    /\ helpers = <<>>
    /\ results = EmptyDict
    /\ working = FALSE
    /\ cancelled = FALSE
    /\ isRunning = [j \in JobIds |-> FALSE]
    /\ quitReq = [j \in JobIds |-> FALSE]
    /\ wpc = [j \in JobIds |-> "idle"]
    /\ workerObj = [j \in JobIds |-> "live"]
    /\ starts = [j \in JobIds |-> 0]
    /\ proc = [j \in JobIds |-> "none"]
    /\ nlines = [j \in JobIds |-> 0]
    /\ PROCESSES = <<>>
    /\ evq = [j \in JobIds |-> <<>>]
    /\ mainpc = "idle"
    /\ cleanIdx = 0
    /\ cancelCalled = FALSE
    /\ emits = <<>>
    /\ nFinished = 0
    /\ finishedResults = EmptyDict
    /\ reported = [j \in JobIds |-> {}]
    /\ errored = [j \in JobIds |-> FALSE]
    /\ exitStatus = [j \in JobIds |-> "none"]
    /\ removed = [j \in JobIds |-> 0]
    /\ enqueued = [j \in JobIds |-> 0]

Init == RendererInit /\ HandlerIdle

WorkerStep(j) ==
    \/ RunException(j)
    \/ Popen(j)
    \/ StdoutLine(j)
    \/ StderrLine(j)
    \/ ProcessExit(j)
    \/ Reap(j)
    \/ ThreadExit(j)

GuiStep(j) ==
    \/ OnProgress(j)
    \/ OnError(j)
    \/ OnWorkerFinished(j)
    \/ OnThreadFinished(j)

Cancel == CancelBegin \/ clean_up_step \/ CancelEnd

Submit == SubmitSong \/ SubmitAlbum

Next ==
    \/ Submit
    \/ CallRender
    \/ \E j \in JobIds : WorkerStep(j)
    \/ \E j \in JobIds : GuiStep(j)
    \/ Cancel

Spec == Init /\ [][Next]_vars

\* A run in which the caller never calls cancel().  clean_up is not called,
\* so no process is killed.  The caller does call render(); every started
\* thread is scheduled, every spawned process exits (it need not write
\* anything), and the event loop of the GUI thread handles every queued
\* event.
ThreadProgress(j) ==
    RunException(j) \/ Popen(j) \/ ProcessExit(j) \/ ThreadExit(j)

NextNoCancel ==
    \/ Submit
    \/ CallRender
    \/ \E j \in JobIds : ThreadProgress(j) \/ StdoutLine(j) \/ StderrLine(j)
    \/ \E j \in JobIds : GuiStep(j)

FairSpec ==
    /\ Init
    /\ [][NextNoCancel]_vars
    /\ WF_vars(CallRender)
    /\ \A j \in JobIds : WF_vars(ThreadProgress(j)) /\ WF_vars(GuiStep(j))

\* ------------------------------------------------------------ progress lines
\* Runs over independent songs, without cancel(), in which a song's
\* duration may be zero and a process writes any kind of line on standard
\* output: ffmpeg's "out_time_us=<microseconds>" with a value inside the
\* duration, negative or beyond the duration; a value int() does not read
\* ("out_time_us=N/A"); another key; a line without "=" and one with two.
\* For these values and durations the floating-point quotient is exact.
MaxProgressJobs == 2

ProgressDurations == {0, 1000}

ProgressLines ==
    { Line(2, "out_time_us", TRUE, 500000),
      Line(2, "out_time_us", TRUE, -500000),
      Line(2, "out_time_us", TRUE, 2000000),
      Line(2, "out_time_us", FALSE, 0),
      Line(2, "frame", TRUE, 10),
      Line(1, "", FALSE, 0),
      Line(3, "out_time_us", TRUE, 500000) }

SubmitAnySong == SubmitSongOf(ProgressDurations, MaxProgressJobs)

AnyStdoutLine(j) == StdoutLineOf(j, ProgressLines)

ProgressNext ==
    \/ SubmitAnySong
    \/ CallRender
    \/ \E j \in JobIds : ThreadProgress(j) \/ AnyStdoutLine(j)
    \/ \E j \in JobIds : GuiStep(j)

ProgressSpec == Init /\ [][ProgressNext]_vars

\* ------------------------------------------------------------ ProcessHandler.run
\* One call of ProcessHandler.run followed line by line, from the moment
\* the two read_pipe threads have been started: the process writes
\* plines[s] lines (valid UTF-8) on stream s and closes it; line i of a
\* stream is identified by i.
Sentinel == [pipe |-> "None", line |-> 0]

\* read_pipe: pipe.readline() returns a line; queue.put((pipe, line)).
read_pipe_line(s) ==
    /\ hpc # "idle"
    /\ rd[s] < plines[s]
    /\ rd' = [rd EXCEPT ![s] = @ + 1]
    /\ queue' = Append(queue, [pipe |-> s, line |-> rd[s] + 1])
    /\ UNCHANGED <<plines, rdDone, fwd, hpc>>
    /\ UNCHANGED rvars

\* read_pipe: pipe.readline() returns b'' at end of file; the finally
\* clause puts the sentinel (None, None).
read_pipe_eof(s) ==
    /\ hpc # "idle"
    /\ rd[s] = plines[s]
    /\ ~rdDone[s]
    /\ rdDone' = [rdDone EXCEPT ![s] = TRUE]
    /\ queue' = Append(queue, Sentinel)
    /\ UNCHANGED <<plines, rd, fwd, hpc>>
    /\ UNCHANGED rvars

\* run: one iteration of "while True".  The inner loop sleeps while the
\* queue is empty and takes an item otherwise (an item is a tuple, never
\* None); a sentinel breaks the outer loop, a line is emitted on the signal
\* of its pipe.
run_get ==
    /\ hpc = "loop"
    /\ queue # <<>>
    /\ queue' = Tail(queue)
    /\ LET item == Head(queue)
       IN  IF item.pipe = "None"
           THEN hpc' = "wait" /\ fwd' = fwd
           ELSE hpc' = hpc /\ fwd' = Append(fwd, [sig |-> item.pipe, line |-> item.line])
    /\ UNCHANGED <<plines, rd, rdDone>>
    /\ UNCHANGED rvars

\* run: error = p.wait() != 0; PROCESSES.remove(p); return error.
run_return ==
    /\ hpc = "wait"
    /\ hpc' = "returned"
    /\ UNCHANGED <<plines, rd, rdDone, queue, fwd>>
    /\ UNCHANGED rvars

HandlerInit ==
    /\ RendererInit
    /\ plines \in [Streams -> 0..MaxPipeLines]
    /\ rd = [s \in Streams |-> 0]
    /\ rdDone = [s \in Streams |-> FALSE]
    /\ queue = <<>>
    /\ fwd = <<>>
    /\ hpc = "loop"

HandlerNext ==
    \/ \E s \in Streams : read_pipe_line(s) \/ read_pipe_eof(s)
    \/ run_get
    \/ run_return

HandlerSpec == HandlerInit /\ [][HandlerNext]_vars

\* ------------------------------------------------------------ claims
RunningThreads == {j \in JobIds : isRunning[j]}

\* C1: at any moment the number of jobs whose thread was started and has
\* not finished is at most maxProcesses.
C1_ConcurrencyLimit == Cardinality(RunningThreads) <= maxProcesses

\* With maxProcesses = 1 and two independent render jobs: the first has
\* completed and left the scheduler, the second was admitted after it and
\* is running.
C1_Witness ==
    /\ maxProcesses = 1
    /\ \E a, b \in Jobs :
          /\ a # b
          /\ groupOf[a] = 0 /\ groupOf[b] = 0
          /\ starts[a] = 1 /\ ~isRunning[a] /\ a \notin workers
          /\ starts[b] = 1 /\ isRunning[b] /\ proc[b] = "alive"

AllUpstreamSucceeded(h) ==
    /\ h <= Len(helpers)
    /\ \A s \in Upstream(h) : reported[s] = {TRUE}

CombineStarted(h) ==
    /\ h <= Len(helpers)
    /\ starts[helpers[h].combine_worker] > 0

\* C3: in a run without cancel(), once every upstream job of an album has
\* emitted finished(true), whatever it wrote on standard error, the
\* album's combine job is eventually started.
C3_SuccessReleasesCombine ==
    \A h \in 1..MaxJobs : AllUpstreamSucceeded(h) ~> CombineStarted(h)

\* C4: when finished is emitted by natural completion (cancel() was not
\* called), the results map it carries has an entry for every submitted
\* job, and the entry of a combine job that never ran is false.
C4_ResultsCoverAllJobs ==
    (nFinished >= 1 /\ ~cancelCalled)
    => /\ DOMAIN finishedResults = Jobs
       /\ \A j \in Jobs : (kind[j] = "combine" /\ starts[j] = 0)
                          => finishedResults[j] = FALSE

\* A job is terminal when it has reported its outcome, or when it is the
\* combine job of an album that has failed.
Terminal(j) ==
    \/ reported[j] # {}
    \/ /\ kind[j] = "combine"
       /\ helpers[groupOf[j]].error

AllTerminal == phase = "rendering" /\ \A j \in Jobs : Terminal(j)

\* C5: in a run without cancel(), under fair scheduling, once every
\* submitted job is terminal, finished is eventually emitted.
C5_BatchEventuallyFinishes == AllTerminal ~> (nFinished >= 1)

\* C6: in a run over a batch of at least one job, finished is emitted at
\* most once, whenever cancel() is called.
C6_FinishedAtMostOnce == nJobs >= 1 => nFinished <= 1

\* C7: the results map cancel() emits covers every submitted job: a job
\* without a recorded outcome is false, a job that had finished keeps its
\* outcome.
C7_CancelCoversAllJobs ==
    [][(~cancelled /\ cancelled')
       => /\ \E i \in 1..Len(emits') : emits'[i].sig = "finished"
          /\ DOMAIN finishedResults' = Jobs
          /\ \A j \in Jobs : finishedResults'[j] =
                                (IF j \in DOMAIN results THEN results[j] ELSE FALSE)]_vars

\* C8: after cancel() has returned no external process of the batch is
\* alive.
C8_NoProcessAfterCancel ==
    (cancelled /\ mainpc = "idle") => \A j \in JobIds : proc[j] # "alive"

\* C9: once the cancellation flag is set, no worker_progress, worker_done
\* or finished signal is emitted.
C9_SilentAfterCancel ==
    [][cancelled => \A i \in 1..Len(emits') :
                       emits'[i].sig \notin {"worker_progress", "worker_done", "finished"}]_vars

\* C10: after cancel() no thread is started.
C10_NoAdmissionAfterCancel ==
    [][cancelled => starts' = starts]_vars

\* cancel() has returned while job q was queued and never started; after
\* that the thread of job k, which had completed before cancel(), has
\* delivered thread.finished, and q still has not been started.
C10_Witness ==
    /\ cancelled
    /\ mainpc = "idle"
    /\ \E q, k \in Jobs :
          /\ InSeq(q, threads) /\ starts[q] = 0
          /\ InSeq(k, threads) /\ starts[k] = 1 /\ ~isRunning[k]
          /\ reported[k] # {} /\ evq[k] = <<>>

\* The lines run has emitted on the signal of stream s, in order.
Forwarded(s) ==
    LET sel == SelectSeq(fwd, LAMBDA e : e.sig = s)
    IN  [i \in 1..Len(sel) |-> sel[i].line]

\* C11: when ProcessHandler.run returns, it has emitted every line the
\* process wrote on standard output on the stdout signal and every line it
\* wrote on standard error on the stderr signal, each stream in order.
C11_AllLinesForwarded ==
    hpc = "returned" => \A s \in Streams : Forwarded(s) = [i \in 1..plines[s] |-> i]

\* Worker j emits finished in this step: its run has ended.
EmitsFinished(j) ==
    /\ Len(evq'[j]) > Len(evq[j])
    /\ evq'[j][Len(evq'[j])].ev = "fin"

\* C12: when the run of a combine job ends in failure (the process exited
\* with a non-zero status or an exception was raised), finished(false) is
\* signalled and the run has deleted none of the job's input files; a run
\* deletes input files only when the process exited with status zero.
C12_FailedCombineKeepsInputs ==
    [][\A j \in Jobs :
          (kind[j] = "combine" /\ EmitsFinished(j))
          => LET success == evq'[j][Len(evq'[j])].ok
             IN  /\ exitStatus'[j] # "exit0" => ~success
                 /\ ~success => removed'[j] = removed[j]
                 /\ removed'[j] # removed[j] => exitStatus'[j] = "exit0"]_vars

\* The GUI thread handles the line of standard output at the head of the
\* events of job j in this step.
ProgressDelivered(j) ==
    /\ evq[j] # <<>>
    /\ Head(evq[j]).ev = "out"
    /\ evq'[j] = Tail(evq[j])

\* The line is "out_time_us=<integer>".
IsOutTime(l) == l.nparts = 2 /\ l.key = "out_time_us" /\ l.isInt

\* C13: every worker_progress event carries a percentage in 0..100; an
\* out_time_us value that is negative gives 0 and one beyond the job's
\* (positive) duration gives 100.
C13_ProgressInRange ==
    [][\A j \in Jobs :
          ProgressDelivered(j)
          => LET l == Head(evq[j]).line
                 d == duration[j]
             IN  /\ \A i \in 1..Len(emits') :
                        emits'[i].sig = "worker_progress" => emits'[i].pct \in 0..100
                 /\ (IsOutTime(l) /\ d > 0 /\ l.val < 0)
                    => emits' = <<Signal("worker_progress", j, TRUE, 0)>>
                 /\ (IsOutTime(l) /\ d > 0 /\ l.val > d * 1000)
                    => emits' = <<Signal("worker_progress", j, TRUE, 100)>>]_vars

\* A line whose out_time_us is beyond the duration has been handled, or
\* one whose out_time_us is negative: the event carries 100, or 0.
C13_Witness ==
    \E j \in Jobs :
        /\ duration[j] = 1000
        /\ proc[j] = "alive" /\ nlines[j] = 1 /\ evq[j] = <<>>
        /\ emits \in {<<Signal("worker_progress", j, TRUE, 100)>>,
                       <<Signal("worker_progress", j, TRUE, 0)>>}

\* The line cannot be turned into a percentage for a job of duration d.
Unparseable(l, d) == l.nparts # 2 \/ ~l.isInt \/ d = 0

\* C20: handling a progress line that cannot be turned into a percentage
\* emits no signal (no worker_progress, no worker_error) and changes
\* neither the results map, nor the state of any job or thread, nor the
\* queue of threads, the registered workers or the groups.
C20_BadLineIgnored ==
    [][\A j \in Jobs :
          (ProgressDelivered(j) /\ Unparseable(Head(evq[j]).line, duration[j]))
          => /\ emits' = <<>>
             /\ UNCHANGED <<results, threads, workers, helpers, working, cancelled,
                            isRunning, quitReq, wpc, workerObj, starts, proc,
                            PROCESSES, nFinished, reported, errored>>]_vars

\* A job of duration zero is running, its process has written a line and
\* the line has been handled while another job waits in the queue: the
\* first job still runs, nothing was recorded and the other job still waits.
C20_Witness ==
    \E j, w \in Jobs :
        /\ duration[j] = 0
        /\ proc[j] = "alive" /\ nlines[j] = 1 /\ evq[j] = <<>>
        /\ isRunning[j] /\ j \notin DOMAIN results /\ ~errored[j]
        /\ InSeq(w, threads) /\ starts[w] = 0

\* The GUI thread handles the finished signal at the head of the events
\* of job j in this step.
FinishedDelivered(j) ==
    /\ evq[j] # <<>>
    /\ Head(evq[j]).ev = "fin"
    /\ evq'[j] = Tail(evq[j])

\* C14: in a run without cancel(), when the completion of a render job is
\* handled, the outcome written to the results map and the outcome
\* worker_done reports are both "the job's process exited with status
\* zero", whatever the process wrote on standard error and whatever the
\* other jobs did.
C14_OutcomeIsExitStatus ==
    [][\A j \in Jobs :
          (kind[j] = "render" /\ ~cancelCalled /\ FinishedDelivered(j))
          => LET ok == (exitStatus[j] = "exit0")
             IN  /\ j \in DOMAIN results' /\ results'[j] = ok
                 /\ \E i \in 1..Len(emits') : emits'[i] = Signal("worker_done", j, ok, 0)
                 /\ \A i \in 1..Len(emits') :
                        (emits'[i].sig = "worker_done" /\ emits'[i].job = j)
                        => emits'[i].ok = ok]_vars

\* Without cancel(): a render job whose process wrote on standard error and
\* exited with status zero is recorded as a success, while another job of
\* the batch is recorded as a failure.
C14_Witness ==
    /\ ~cancelCalled
    /\ \E j, k \in Jobs :
          /\ j # k
          /\ kind[j] = "render" /\ starts[j] = 1
          /\ errored[j] /\ exitStatus[j] = "exit0"
          /\ j \in DOMAIN results /\ results[j] = TRUE
          /\ k \in DOMAIN results /\ results[k] = FALSE

\* C15: when worker_done reports success = false for a job the group of
\* helper h still waits for, the group is marked failed and its combine job
\* is removed from the registered workers of the Renderer.
C15_FailureCancelsCombine ==
    [][\A h \in 1..Len(helpers) : \A s \in helpers[h].workers :
          (\E i \in 1..Len(emits') : emits'[i] = Signal("worker_done", s, FALSE, 0))
          => /\ helpers'[h].error
             /\ helpers[h].combine_worker \notin workers']_vars

\* C16: after render(), whenever a job that was never started is admitted,
\* no job submitted before it is waiting in the queue of threads (a combine
\* job is in the queue from the moment its group released it).
C16_AdmitsEarliestEligible ==
    [][\A t \in Jobs :
          (phase = "rendering" /\ starts[t] = 0 /\ starts'[t] = 1)
          => \A e \in Jobs :
                e < t => ~(InSeq(e, threads') /\ starts'[e] = 0)]_vars

\* C17: a job whose worker has emitted finished, and whose completion the
\* Renderer has handled, is never started again.
C17_NoRestart ==
    [][\A j \in Jobs : reported[j] # {} => starts'[j] = starts[j]]_vars

\* C18: the combine job of a group is put on the queue of threads at most
\* once and started at most once, and it is not put on the queue once the
\* group has failed.
C18_CombineReleasedOnce ==
    [][\A h \in 1..Len(helpers) :
          LET c == helpers[h].combine_worker
          IN  /\ enqueued'[c] <= 1
              /\ starts'[c] <= 1
              /\ helpers[h].error => enqueued'[c] = enqueued[c]]_vars

\* C19: an entry of the results map is never removed and its value never
\* changes.
C19_ResultsAppendOnly ==
    [][\A j \in DOMAIN results :
          j \in DOMAIN results' /\ results'[j] = results[j]]_vars

====
